---- MODULE Spec2Model ----
(***************************************************************************)
(* deduplicateMusic: the duplicate selector (internal/dedup), the          *)
(* fingerprinting pipeline of the command (cmd/audio-dedup) and the        *)
(* fingerprint engine (internal/fingerprint), as state machines.           *)
(*                                                                         *)
(*   SpecSK    dedup.SelectKeep: one comparison goroutine per row, all of  *)
(*             them calling the unsynchronised unionFind; every access to  *)
(*             the shared parent/rank slices is one step.                  *)
(*   SpecMain  main from wg.Wait on: the sending goroutine, the workers,   *)
(*             the collector and main, over unbuffered channels.           *)
(*   FairMain  SpecMain with a scheduler that runs what can run.           *)
(*   SpecFP    one call of FingerprintFromFile or FingerprintFromSamples.  *)
(*   SpecBlocks  one call of FingerprintFromSamples, its per-block         *)
(*             goroutines as steps.                                        *)
(*   SpecHD    two calls of FingerprintFromSamples and HammingDistance of  *)
(*             the results, or HammingDistance of given words.             *)
(*                                                                         *)
(* A uint64 is the set of the positions of its 1 bits; a float64 block     *)
(* average is the exact quotient of its sum and count.                     *)
(***************************************************************************)
EXTENDS Integers, Sequences, FiniteSets, TLC

VARIABLES
    \* dedup.SelectKeep
    files,      \* SelectKeep's argument: a sequence of FileMeta records
    threshold,  \* SelectKeep's argument
    parent,     \* unionFind.parent, indexed 0..n-1
    rank,       \* unionFind.rank, indexed 0..n-1
    gs,         \* the comparison goroutines, one per row i, indexed 0..n-1
    mpc,        \* where the goroutine that called SelectKeep is
    groups,     \* the map root -> indexes built after wg.Wait
    keeps,      \* the slice SelectKeep returns
    \* main of cmd/audio-dedup, from the start of the workers to its end
    srcFiles,   \* main's `files`: the paths the scanner returned
    decodable,  \* per path, whether FingerprintFromFile succeeds on it
    workers,    \* the -workers flag
    sent,       \* how many paths the sending goroutine has handed over
    jobsClosed, \* close(jobs) has run
    wk,         \* the worker goroutines: where each is and the path it holds
    resClosed,  \* close(results) has run
    col,        \* the collecting goroutine: where it is and the result it holds
    metas,      \* main's `metas` (each FileMeta stands as its path)
    collectErr, \* main's `collectErr`: 0 for nil, else the path that failed
    warned,     \* the paths of the warnings the collector has logged
    fpCount,    \* per path, how many times FingerprintFromFile was called on it
    pmc,        \* where main is
    clusterIn,  \* the slice main handed to dedup.SelectKeep
    \* one call of the fingerprint package
    fcall,      \* the function called
    bitsLen,    \* its argument bitsLen
    samples,    \* its argument samples, or the PCM the decoder gives for path
    decodeOk,   \* FingerprintFromFile: ffmpeg is found, runs, and its output parses
    fpc,        \* where the call is
    fpRet,      \* what it returned
    \* FingerprintFromSamples with its per-block goroutines as steps
    averages,   \* the slice `averages`, indexed 0..blockCount-1
    bg,         \* the goroutines, one per block: where each is, the samples it
                \* read, and its place in the order they finished in
    \* two fingerprints, or three words, and HammingDistance of them
    sa,         \* the samples of the first call of FingerprintFromSamples
    sb,         \* the samples of the second call
    pbits,      \* the bitsLen of both calls
    fa,         \* the first word (the first call's result)
    fb,         \* the second word (the second call's result)
    fc,         \* a third word
    dist,       \* the results of the HammingDistance calls
    hpc         \* where the caller is

skvars == <<files, threshold, parent, rank, gs, mpc, groups, keeps>>

pipevars == <<srcFiles, decodable, workers, sent, jobsClosed, wk, resClosed, col,
              metas, collectErr, warned, fpCount, pmc, clusterIn>>

fpvars == <<fcall, bitsLen, samples, decodeOk, fpc, fpRet>>

blkvars == <<averages, bg>>

hdvars == <<sa, sb, pbits, fa, fb, fc, dist, hpc>>

vars == <<skvars, pipevars, fpvars, blkvars, hdvars>>

\* what SelectKeep leaves alone, and what main's pipeline leaves alone
notSK == <<pipevars, fpvars, blkvars, hdvars>>

notPipe == <<skvars, fpvars, blkvars, hdvars>>

notFP == <<skvars, pipevars, blkvars, hdvars>>

\* what a stepwise FingerprintFromSamples leaves alone, and what the distance
\* calls leave alone
notBlk == <<skvars, pipevars, hdvars>>

notHD == <<skvars, pipevars, fpvars, blkvars>>

\* SelectKeep not called
SKIdle ==
    /\ files = <<>>
    /\ threshold = 0
    /\ parent = <<>>
    /\ rank = <<>>
    /\ gs = <<>>
    /\ mpc = "idle"
    /\ groups = <<>>
    /\ keeps = <<>>

\* main not run
PipeIdle ==
    /\ srcFiles = <<>>
    /\ decodable = <<>>
    /\ workers = 0
    /\ sent = 0
    /\ jobsClosed = FALSE
    /\ wk = <<>>
    /\ resClosed = FALSE
    /\ col = [pc |-> "idle", path |-> 0, ok |-> FALSE]
    /\ metas = <<>>
    /\ collectErr = 0
    /\ warned = {}
    /\ fpCount = <<>>
    /\ pmc = "idle"
    /\ clusterIn = <<>>

\* the fingerprint package not called
FPIdle ==
    /\ fcall = "none"
    /\ bitsLen = 0
    /\ samples = <<>>
    /\ decodeOk = FALSE
    /\ fpc = "idle"
    /\ fpRet = [fp |-> {}, err |-> FALSE]

\* no goroutine of FingerprintFromSamples started
BlkIdle ==
    /\ averages = <<>>
    /\ bg = <<>>

\* HammingDistance not called
HDIdle ==
    /\ sa = <<>>
    /\ sb = <<>>
    /\ pbits = 0
    /\ fa = {}
    /\ fb = {}
    /\ fc = {}
    /\ dist = <<>>
    /\ hpc = "idle"

----------------------------------------------------------------------------
(* Bounds of the model *)

\* file sizes are 1..MaxSize
MaxSize == 3

\* sample sequences have up to MaxSamples samples
MaxSamples == 3

\* FingerprintFromSamples is run goroutine by goroutine for bitsLen 1..MaxBlocks
MaxBlocks == 3

\* and on up to MaxBlockSamples samples
MaxBlockSamples == 4

\* pairs of arbitrary sample sequences have up to MaxPairLen samples each
MaxPairLen == 2

\* constant sample sequences have up to MaxConstLen samples
MaxConstLen == 8

\* main is run on 1..MaxPaths scanned paths
MaxPaths == 3

\* and with 0..MaxWorkers workers
MaxWorkers == 2

\* the recursion depth of find at which the goroutine's stack is taken to be
\* exhausted (Go aborts the process when a goroutine's stack passes its limit)
MaxDepth == 6

----------------------------------------------------------------------------
(* Values *)

\* file paths: strings over a two-letter alphabet, compared as Go compares
\* strings (byte-wise, a proper prefix first)
Paths == <<  <<1>>, <<1, 1>>, <<1, 2>>, <<2>> >>

RECURSIVE StrLess(_, _)
StrLess(a, b) ==
    IF b = <<>> THEN FALSE
    ELSE IF a = <<>> THEN TRUE
    ELSE IF Head(a) # Head(b) THEN Head(a) < Head(b)
    ELSE StrLess(Tail(a), Tail(b))

\* a uint64 is the set of the positions (0 = least significant .. 63) of its
\* 1 bits
WordBits == 64

\* a | b
BitOr(a, b) == a \cup b

\* a ^ b
Xor(a, b) == (a \ b) \cup (b \ a)

\* whether any bit is set
AnyBit(x) == IF x = {} THEN 0 ELSE 1

\* bits.OnesCount64
OnesCount64(x) == Cardinality(x)

\* 1 << k on a uint64: a shift by the width or more gives 0
Shl1(k) == IF k < WordBits THEN {k} ELSE {}

HammingDistance(a, b) == OnesCount64(Xor(a, b))

\* fingerprints of the batches: 0b00, 0b01, 0b11
FPs == {{}, {0}, {0, 1}}

----------------------------------------------------------------------------
(* dedup.SelectKeep *)

N == Len(files)

Idx == 0 .. (N - 1)

\* files[i] of the source (0-based)
File(i) == files[i + 1]

\* the edge relation the comparison goroutines test (dedup.go line 40-41)
Similar(i, j) == HammingDistance(File(i).FP, File(j).FP) <= threshold

\* newUnionFind: every element its own parent, every rank 0
newUnionFind(n) ==
    [parent |-> [i \in 0 .. (n - 1) |-> i], rank |-> [i \in 0 .. (n - 1) |-> 0]]

\* a goroutine that is not inside a union call
Resting(pc) ==
    [pc |-> pc, j |-> 0, arg |-> "a", stack |-> <<>>, ret |-> 0,
     ar |-> 0, br |-> 0, ra |-> 0]

\* the least j' >= j with files i and j' similar, N when there is none
RECURSIVE NextEdge(_, _)
NextEdge(i, j) ==
    IF j >= N THEN N
    ELSE IF Similar(i, j) THEN j
    ELSE NextEdge(i, j + 1)

\* row i's loop from j on: the iterations that do not call union touch only
\* files, which nobody writes; the goroutine comes to rest at the next call
\* uf.union(i, j), about to evaluate find(a), or at its end (wg.Done)
EnterLoop(i, j) ==
    LET k == NextEdge(i, j) IN
    IF k >= N THEN Resting("done")
    ELSE [pc |-> "find_test", j |-> k, arg |-> "a", stack |-> <<i>>, ret |-> 0,
          ar |-> 0, br |-> 0, ra |-> 0]

Top(s) == s.stack[Len(s.stack)]

Pop(st) == SubSeq(st, 1, Len(st) - 1)

\* SelectKeep on the empty batch: `if n == 0 { return nil }`
ReturnNil ==
    /\ mpc = "start"
    /\ N = 0
    /\ mpc' = "done"
    /\ keeps' = <<>>
    /\ UNCHANGED <<notSK, files, threshold, parent, rank, gs, groups>>

\* SelectKeep up to wg.Wait: the union-find is made and one goroutine per row
\* is started
Start ==
    /\ mpc = "start"
    /\ N > 0
    /\ parent' = newUnionFind(N).parent
    /\ rank' = newUnionFind(N).rank
    /\ gs' = [i \in Idx |-> EnterLoop(i, i + 1)]
    /\ mpc' = "wait"
    /\ UNCHANGED <<notSK, files, threshold, groups, keeps>>

\* find, `if u.parent[x] != x`: one read of parent[x]
FindTest(i) ==
    LET s == gs[i] IN
    /\ mpc = "wait"
    /\ s.pc = "find_test"
    /\ gs' = [gs EXCEPT ![i].pc =
                 IF parent[Top(s)] # Top(s) THEN "find_arg" ELSE "find_ret"]
    /\ UNCHANGED <<notSK, files, threshold, parent, rank, mpc, groups, keeps>>

\* find, the argument of the recursive call u.find(u.parent[x]): a second read
\* of parent[x], then the call
FindArg(i) ==
    LET s == gs[i] IN
    /\ mpc = "wait"
    /\ s.pc = "find_arg"
    /\ Len(s.stack) < MaxDepth
    /\ gs' = [gs EXCEPT ![i].stack = Append(s.stack, parent[Top(s)]),
                        ![i].pc = "find_test"]
    /\ UNCHANGED <<notSK, files, threshold, parent, rank, mpc, groups, keeps>>

\* find, a recursive call with the goroutine's stack at its limit: the
\* runtime ends the process (fatal error: stack overflow)
FindOverflow(i) ==
    LET s == gs[i] IN
    /\ mpc = "wait"
    /\ s.pc = "find_arg"
    /\ Len(s.stack) >= MaxDepth
    /\ gs' = [gs EXCEPT ![i] = Resting("overflow")]
    /\ mpc' = "crashed"
    /\ UNCHANGED <<notSK, files, threshold, parent, rank, groups, keeps>>

\* find, `u.parent[x] = <result of the recursive call>`: one write
FindWrite(i) ==
    LET s == gs[i] IN
    /\ mpc = "wait"
    /\ s.pc = "find_write"
    /\ parent' = [parent EXCEPT ![Top(s)] = s.ret]
    /\ gs' = [gs EXCEPT ![i].pc = "find_ret", ![i].ret = 0]
    /\ UNCHANGED <<notSK, files, threshold, rank, mpc, groups, keeps>>

\* find, `return u.parent[x]`: one read; the value goes to the calling find,
\* or to union's ar or br. union returns at once when ar == br.
FindRet(i) ==
    LET s == gs[i]
        r == parent[Top(s)]
    IN
    /\ mpc = "wait"
    /\ s.pc = "find_ret"
    /\ gs' = [gs EXCEPT ![i] =
                 IF Len(s.stack) > 1
                 THEN [s EXCEPT !.stack = Pop(s.stack), !.ret = r, !.pc = "find_write"]
                 ELSE IF s.arg = "a"
                 THEN [s EXCEPT !.ar = r, !.arg = "b", !.stack = <<s.j>>, !.pc = "find_test"]
                 ELSE IF s.ar = r
                 THEN EnterLoop(i, s.j + 1)
                 ELSE [s EXCEPT !.br = r, !.arg = "a", !.stack = <<>>, !.pc = "lt_ar"]]
    /\ UNCHANGED <<notSK, files, threshold, parent, rank, mpc, groups, keeps>>

\* union, `if u.rank[ar] < u.rank[br]`: the read of rank[ar]
RankLtAr(i) ==
    LET s == gs[i] IN
    /\ mpc = "wait"
    /\ s.pc = "lt_ar"
    /\ gs' = [gs EXCEPT ![i].ra = rank[s.ar], ![i].pc = "lt_br"]
    /\ UNCHANGED <<notSK, files, threshold, parent, rank, mpc, groups, keeps>>

\* union, `if u.rank[ar] < u.rank[br]`: the read of rank[br] and the branch
RankLtBr(i) ==
    LET s == gs[i] IN
    /\ mpc = "wait"
    /\ s.pc = "lt_br"
    /\ gs' = [gs EXCEPT ![i].ra = 0,
                        ![i].pc = IF s.ra < rank[s.br] THEN "set_ar" ELSE "gt_ar"]
    /\ UNCHANGED <<notSK, files, threshold, parent, rank, mpc, groups, keeps>>

\* union, `u.parent[ar] = br`, the last statement of its branch
SetAr(i) ==
    LET s == gs[i] IN
    /\ mpc = "wait"
    /\ s.pc = "set_ar"
    /\ parent' = [parent EXCEPT ![s.ar] = s.br]
    /\ gs' = [gs EXCEPT ![i] = EnterLoop(i, s.j + 1)]
    /\ UNCHANGED <<notSK, files, threshold, rank, mpc, groups, keeps>>

\* union, `else if u.rank[ar] > u.rank[br]`: the read of rank[ar]
RankGtAr(i) ==
    LET s == gs[i] IN
    /\ mpc = "wait"
    /\ s.pc = "gt_ar"
    /\ gs' = [gs EXCEPT ![i].ra = rank[s.ar], ![i].pc = "gt_br"]
    /\ UNCHANGED <<notSK, files, threshold, parent, rank, mpc, groups, keeps>>

\* union, `else if u.rank[ar] > u.rank[br]`: the read of rank[br] and the branch
RankGtBr(i) ==
    LET s == gs[i] IN
    /\ mpc = "wait"
    /\ s.pc = "gt_br"
    /\ gs' = [gs EXCEPT ![i].ra = 0,
                        ![i].pc = IF s.ra > rank[s.br] THEN "set_br" ELSE "set_br_eq"]
    /\ UNCHANGED <<notSK, files, threshold, parent, rank, mpc, groups, keeps>>

\* union, `u.parent[br] = ar` of the rank[ar] > rank[br] branch
SetBr(i) ==
    LET s == gs[i] IN
    /\ mpc = "wait"
    /\ s.pc = "set_br"
    /\ parent' = [parent EXCEPT ![s.br] = s.ar]
    /\ gs' = [gs EXCEPT ![i] = EnterLoop(i, s.j + 1)]
    /\ UNCHANGED <<notSK, files, threshold, rank, mpc, groups, keeps>>

\* union, `u.parent[br] = ar` of the equal-rank branch
SetBrEq(i) ==
    LET s == gs[i] IN
    /\ mpc = "wait"
    /\ s.pc = "set_br_eq"
    /\ parent' = [parent EXCEPT ![s.br] = s.ar]
    /\ gs' = [gs EXCEPT ![i].pc = "inc_read"]
    /\ UNCHANGED <<notSK, files, threshold, rank, mpc, groups, keeps>>

\* union, `u.rank[ar]++`: the load
RankIncRead(i) ==
    LET s == gs[i] IN
    /\ mpc = "wait"
    /\ s.pc = "inc_read"
    /\ gs' = [gs EXCEPT ![i].ra = rank[s.ar], ![i].pc = "inc_write"]
    /\ UNCHANGED <<notSK, files, threshold, parent, rank, mpc, groups, keeps>>

\* union, `u.rank[ar]++`: the store, and the return to the row's loop
RankIncWrite(i) ==
    LET s == gs[i] IN
    /\ mpc = "wait"
    /\ s.pc = "inc_write"
    /\ rank' = [rank EXCEPT ![s.ar] = s.ra + 1]
    /\ gs' = [gs EXCEPT ![i] = EnterLoop(i, s.j + 1)]
    /\ UNCHANGED <<notSK, files, threshold, parent, mpc, groups, keeps>>

\* x after k steps along p
RECURSIVE Walk(_, _, _)
Walk(p, x, k) == IF k = 0 THEN x ELSE Walk(p, p[x], k - 1)

\* following p from x ends in a root (an element that is its own parent)
Rooted(p, x) == LET y == Walk(p, x, Cardinality(DOMAIN p)) IN p[y] = y

\* unionFind.find run alone, as after wg.Wait: the root, and parent after the
\* path compression
RECURSIVE find(_, _)
find(p, x) ==
    IF p[x] # x
    THEN LET sub == find(p, p[x]) IN [parent |-> [sub.parent EXCEPT ![x] = sub.root], root |-> sub.root]
    ELSE [parent |-> p, root |-> p[x]]

\* the loop `for i := 0; i < n; i++ { r := uf.find(i); groups[r] = append(groups[r], i) }`
\* from i on
RECURSIVE GroupFrom(_, _, _)
GroupFrom(i, p, g) ==
    IF i >= N THEN [parent |-> p, groups |-> g]
    ELSE LET f == find(p, i)
             g2 == IF f.root \in DOMAIN g
                   THEN [g EXCEPT ![f.root] = Append(@, i)]
                   ELSE g @@ (f.root :> <<i>>)
         IN GroupFrom(i + 1, f.parent, g2)

\* wg.Wait returns once every goroutine has called wg.Done; then the records
\* are grouped by root
Group ==
    /\ mpc = "wait"
    /\ \A i \in Idx : gs[i].pc = "done"
    /\ \A x \in Idx : Rooted(parent, x)
    /\ parent' = GroupFrom(0, parent, <<>>).parent
    /\ groups' = GroupFrom(0, parent, <<>>).groups
    /\ mpc' = "select"
    /\ UNCHANGED <<notSK, files, threshold, rank, gs, keeps>>

\* the grouping loop when some find never reaches a root: it recurses until
\* the stack is exhausted, which ends the process
GroupOverflow ==
    /\ mpc = "wait"
    /\ \A i \in Idx : gs[i].pc = "done"
    /\ \E x \in Idx : ~Rooted(parent, x)
    /\ mpc' = "crashed"
    /\ UNCHANGED <<notSK, files, threshold, parent, rank, gs, groups, keeps>>

\* a comparison that puts the smaller size first
LessSmallestFirst(a, b) ==
    IF a.Size # b.Size THEN a.Size < b.Size ELSE StrLess(a.Path, b.Path)

\* the comparison function handed to sort.Slice for a group: larger size
\* first, then the smaller path
Less(a, b) ==
    IF a.Size # b.Size THEN a.Size > b.Size ELSE StrLess(a.Path, b.Path)

\* the comparison function of the final sort
PathLess(a, b) == StrLess(a.Path, b.Path)

\* the comparison function of the sort.Slice call named `less`
Compare(less, a, b) == IF less = "group" THEN Less(a, b) ELSE PathLess(a, b)

\* sort.Slice: the elements in the order of the comparison. The orders used
\* are total on the records compared (their paths differ), so each element's
\* place is one more than the number of elements less than it.
SortSlice(s, less) ==
    LET place(k) == 1 + Cardinality({m \in 1 .. Len(s) : Compare(less, s[m], s[k])})
    IN [q \in 1 .. Len(s) |-> s[CHOOSE k \in 1 .. Len(s) : place(k) = q]]

\* the sequences that enumerate the set S once each
RECURSIVE Orders(_)
Orders(S) ==
    IF S = {} THEN {<<>>}
    ELSE UNION {{<<x>> \o t : t \in Orders(S \ {x})} : x \in S}

\* the record kept for the group idxs: first of the group sorted by Less
Keeper(idxs) ==
    SortSlice([k \in 1 .. Len(idxs) |-> File(idxs[k])], "group")[1]

\* `for _, idxs := range groups` (a Go map is ranged over in no fixed order),
\* one keeper per group, and the final sort by path
Select ==
    /\ mpc = "select"
    /\ \E order \in Orders(DOMAIN groups) :
          keeps' = SortSlice([k \in 1 .. Len(order) |-> Keeper(groups[order[k]])], "path")
    /\ mpc' = "done"
    /\ UNCHANGED <<notSK, files, threshold, parent, rank, gs, groups>>

----------------------------------------------------------------------------
(* The batches SelectKeep is run on *)

Thresholds == {-1, 0, 1}

Rec(p, s, f) == [Path |-> Paths[p], Size |-> s, FP |-> f]

\* every batch of fewer records than there are paths, the paths pairwise
\* distinct (the scanner lists every file once) and in ascending or descending
\* order
SmallBatches ==
    UNION {
      { [i \in 1 .. n |-> Rec(IF up THEN i ELSE n + 1 - i, size[i], fp[i])] :
          fp \in [1 .. n -> FPs], size \in [1 .. n -> 1 .. MaxSize], up \in BOOLEAN }
      : n \in 0 .. (Len(Paths) - 1) }

\* two batches over all the paths: rows 0 and 1 are not similar to each other at
\* threshold 1, and each is similar to rows 2 and 3
Quartets ==
    { << Rec(1, 1, {}), Rec(2, 2, {0, 1}), Rec(3, 2, {0}), Rec(4, 1, {0}) >>,
      << Rec(4, 2, {0, 1}), Rec(3, 1, {}), Rec(2, 2, {0}), Rec(1, 2, {0}) >> }

Batches == SmallBatches \cup Quartets

InitSK ==
    /\ files \in Batches
    /\ threshold \in Thresholds
    /\ parent = <<>>
    /\ rank = <<>>
    /\ gs = <<>>
    /\ mpc = "start"
    /\ groups = <<>>
    /\ keeps = <<>>
    /\ PipeIdle
    /\ FPIdle
    /\ BlkIdle
    /\ HDIdle

NextSK ==
    \/ ReturnNil
    \/ Start
    \/ \E i \in Idx : FindTest(i)
    \/ \E i \in Idx : FindArg(i)
    \/ \E i \in Idx : FindOverflow(i)
    \/ \E i \in Idx : FindWrite(i)
    \/ \E i \in Idx : FindRet(i)
    \/ \E i \in Idx : RankLtAr(i)
    \/ \E i \in Idx : RankLtBr(i)
    \/ \E i \in Idx : SetAr(i)
    \/ \E i \in Idx : RankGtAr(i)
    \/ \E i \in Idx : RankGtBr(i)
    \/ \E i \in Idx : SetBr(i)
    \/ \E i \in Idx : SetBrEq(i)
    \/ \E i \in Idx : RankIncRead(i)
    \/ \E i \in Idx : RankIncWrite(i)
    \/ Group
    \/ GroupOverflow
    \/ Select

SpecSK == InitSK /\ [][NextSK]_vars

----------------------------------------------------------------------------
(* main of cmd/audio-dedup: the fingerprinting pipeline *)

NPaths == Len(srcFiles)

Workers == 1 .. workers

\* the process runs until main returns or calls log.Fatalf
Running == pmc \notin {"idle", "fatal", "exit"}

\* a worker that leaves its loop at the first result with an error
AfterSendStopOnError(ok) == IF ok THEN "recv" ELSE "exit"

\* where a worker goes after `results <- r`: back to `for p := range jobs`,
\* whatever the result was
AfterSend(ok) == "recv"

\* a path that stays the next one to send after it was received
HandedAgain(k) == k

\* how many paths were handed over once the k+1st has been received: a value
\* sent on jobs is received by one worker, and the sender goes on to the next
Handed(k) == k + 1

\* `jobs <- f` of the sending goroutine meeting `for p := range jobs` of worker
\* w (the channel is unbuffered: the two happen together)
WorkerRecv(w) ==
    /\ Running
    /\ wk[w].pc = "recv"
    /\ sent < NPaths
    /\ sent' = Handed(sent)
    /\ wk' = [wk EXCEPT ![w] = [pc |-> "fingerprint", path |-> srcFiles[sent + 1], ok |-> FALSE]]
    /\ UNCHANGED <<notPipe, srcFiles, decodable, workers, jobsClosed, resClosed, col,
                   metas, collectErr, warned, fpCount, pmc, clusterIn>>

\* the sending goroutine after its last path: close(jobs)
CloseJobs ==
    /\ Running
    /\ sent = NPaths
    /\ ~jobsClosed
    /\ jobsClosed' = TRUE
    /\ UNCHANGED <<notPipe, srcFiles, decodable, workers, sent, wk, resClosed, col,
                   metas, collectErr, warned, fpCount, pmc, clusterIn>>

\* worker w: fingerprint.FingerprintFromFile(p, ...) and the result made of it
Fingerprint(w) ==
    /\ Running
    /\ wk[w].pc = "fingerprint"
    /\ wk' = [wk EXCEPT ![w].pc = "send", ![w].ok = decodable[wk[w].path]]
    /\ fpCount' = [fpCount EXCEPT ![wk[w].path] = @ + 1]
    /\ UNCHANGED <<notPipe, srcFiles, decodable, workers, sent, jobsClosed, resClosed,
                   col, metas, collectErr, warned, pmc, clusterIn>>

\* `results <- r` of worker w meeting `for res := range results` of the
\* collector (unbuffered)
Collect(w) ==
    /\ Running
    /\ wk[w].pc = "send"
    /\ col.pc = "recv"
    /\ col' = [pc |-> "handle", path |-> wk[w].path, ok |-> wk[w].ok]
    /\ wk' = [wk EXCEPT ![w] = [pc |-> AfterSend(wk[w].ok), path |-> 0, ok |-> FALSE]]
    /\ UNCHANGED <<notPipe, srcFiles, decodable, workers, sent, jobsClosed, resClosed,
                   metas, collectErr, warned, fpCount, pmc, clusterIn>>

\* worker w finds jobs closed and empty: its loop ends, wg.Done runs
WorkerExit(w) ==
    /\ Running
    /\ wk[w].pc = "recv"
    /\ jobsClosed
    /\ wk' = [wk EXCEPT ![w].pc = "exit"]
    /\ UNCHANGED <<notPipe, srcFiles, decodable, workers, sent, jobsClosed, resClosed,
                   col, metas, collectErr, warned, fpCount, pmc, clusterIn>>

\* the collector's loop body for a result with an error: the first error is
\* kept in collectErr, a warning is logged
HandleErr ==
    /\ Running
    /\ col.pc = "handle"
    /\ ~col.ok
    /\ collectErr' = IF collectErr = 0 THEN col.path ELSE collectErr
    /\ warned' = warned \cup {col.path}
    /\ col' = [pc |-> "recv", path |-> 0, ok |-> FALSE]
    /\ UNCHANGED <<notPipe, srcFiles, decodable, workers, sent, jobsClosed, wk,
                   resClosed, metas, fpCount, pmc, clusterIn>>

\* the collector's loop body for a result without error
HandleOk ==
    /\ Running
    /\ col.pc = "handle"
    /\ col.ok
    /\ metas' = Append(metas, col.path)
    /\ col' = [pc |-> "recv", path |-> 0, ok |-> FALSE]
    /\ UNCHANGED <<notPipe, srcFiles, decodable, workers, sent, jobsClosed, wk,
                   resClosed, collectErr, warned, fpCount, pmc, clusterIn>>

\* the collector finds results closed: its loop ends
CollectorExit ==
    /\ Running
    /\ col.pc = "recv"
    /\ resClosed
    /\ col' = [col EXCEPT !.pc = "exit"]
    /\ UNCHANGED <<notPipe, srcFiles, decodable, workers, sent, jobsClosed, wk,
                   resClosed, metas, collectErr, warned, fpCount, pmc, clusterIn>>

\* main: wg.Wait returns when every worker has called wg.Done
MainWait ==
    /\ pmc = "wait"
    /\ \A w \in Workers : wk[w].pc = "exit"
    /\ pmc' = "close"
    /\ UNCHANGED <<notPipe, srcFiles, decodable, workers, sent, jobsClosed, wk,
                   resClosed, col, metas, collectErr, warned, fpCount, clusterIn>>

\* main: close(results)
MainClose ==
    /\ pmc = "close"
    /\ resClosed' = TRUE
    /\ pmc' = "checkErr"
    /\ UNCHANGED <<notPipe, srcFiles, decodable, workers, sent, jobsClosed, wk,
                   col, metas, collectErr, warned, fpCount, clusterIn>>

\* main: `if collectErr != nil { log.Printf(...) }`
MainCheckErr ==
    /\ pmc = "checkErr"
    /\ pmc' = "checkLen"
    /\ UNCHANGED <<notPipe, srcFiles, decodable, workers, sent, jobsClosed, wk,
                   resClosed, col, metas, collectErr, warned, fpCount, clusterIn>>

\* main: `if len(metas) == 0 { log.Fatalf(...) }`, the process ends
MainFatal ==
    /\ pmc = "checkLen"
    /\ Len(metas) = 0
    /\ pmc' = "fatal"
    /\ UNCHANGED <<notPipe, srcFiles, decodable, workers, sent, jobsClosed, wk,
                   resClosed, col, metas, collectErr, warned, fpCount, clusterIn>>

\* main: len(metas) is not 0
MainProceed ==
    /\ pmc = "checkLen"
    /\ Len(metas) # 0
    /\ pmc' = "cluster"
    /\ UNCHANGED <<notPipe, srcFiles, decodable, workers, sent, jobsClosed, wk,
                   resClosed, col, metas, collectErr, warned, fpCount, clusterIn>>

\* main: keeps := dedup.SelectKeep(metas, *threshold), with metas as it is read
\* at the call
MainCluster ==
    /\ pmc = "cluster"
    /\ clusterIn' = metas
    /\ pmc' = "copy"
    /\ UNCHANGED <<notPipe, srcFiles, decodable, workers, sent, jobsClosed, wk,
                   resClosed, col, metas, collectErr, warned, fpCount>>

\* main: the kept files are copied to the target directory
MainCopy ==
    /\ pmc = "copy"
    /\ pmc' = "report"
    /\ UNCHANGED <<notPipe, srcFiles, decodable, workers, sent, jobsClosed, wk,
                   resClosed, col, metas, collectErr, warned, fpCount, clusterIn>>

\* main: the summary line, report.WriteCSVReport, and the return
MainReport ==
    /\ pmc = "report"
    /\ pmc' = "exit"
    /\ UNCHANGED <<notPipe, srcFiles, decodable, workers, sent, jobsClosed, wk,
                   resClosed, col, metas, collectErr, warned, fpCount, clusterIn>>

\* main at wg.Wait: the workers, the sending goroutine and the collector have
\* been started and none has run yet
InitMain ==
    /\ \E n \in 1 .. MaxPaths :
          /\ srcFiles = [k \in 1 .. n |-> k]
          /\ decodable \in [1 .. n -> BOOLEAN]
          /\ fpCount = [k \in 1 .. n |-> 0]
    /\ workers \in 0 .. MaxWorkers
    /\ sent = 0
    /\ jobsClosed = FALSE
    /\ wk = [w \in 1 .. workers |-> [pc |-> "recv", path |-> 0, ok |-> FALSE]]
    /\ resClosed = FALSE
    /\ col = [pc |-> "recv", path |-> 0, ok |-> FALSE]
    /\ metas = <<>>
    /\ collectErr = 0
    /\ warned = {}
    /\ pmc = "wait"
    /\ clusterIn = <<>>
    /\ SKIdle
    /\ FPIdle
    /\ BlkIdle
    /\ HDIdle

NextMain ==
    \/ \E w \in Workers : WorkerRecv(w)
    \/ CloseJobs
    \/ \E w \in Workers : Fingerprint(w)
    \/ \E w \in Workers : Collect(w)
    \/ \E w \in Workers : WorkerExit(w)
    \/ HandleErr
    \/ HandleOk
    \/ CollectorExit
    \/ MainWait
    \/ MainClose
    \/ MainCheckErr
    \/ MainFatal
    \/ MainProceed
    \/ MainCluster
    \/ MainCopy
    \/ MainReport

SpecMain == InitMain /\ [][NextMain]_vars

\* the Go scheduler runs a goroutine that can run: while some step is
\* possible, some step is taken
FairMain == SpecMain /\ WF_vars(NextMain)

----------------------------------------------------------------------------
(* internal/fingerprint *)

\* the widest fingerprint FingerprintFromFile accepts
MaxBits == 64

\* the width FingerprintFromSamples takes for bitsLen <= 0
DefaultBits == 64

\* a float64 that is a quotient of small integers, as numerator and
\* denominator (denominator > 0)
Frac(n, d) == [n |-> n, d |-> d]

FLess(a, b) == a.n * b.d < b.n * a.d

FLeq(a, b) == a.n * b.d <= b.n * a.d

\* a sample added as it is, whatever its sign
Signed(v) == v

\* what one sample adds to sum: `if v < 0 { sum -= float64(v) } else { sum += float64(v) }`
Abs(v) == IF v < 0 THEN 0 - v ELSE v

Min(a, b) == IF a < b THEN a ELSE b

RECURSIVE SumAbs(_, _, _)
SumAbs(s, from, to) ==
    IF from >= to THEN 0 ELSE Abs(s[from + 1]) + SumAbs(s, from + 1, to)

\* blockCount: bitsLen, with 64 for bitsLen <= 0
BlockCount(bits) == IF bits <= 0 THEN DefaultBits ELSE bits

\* a block size rounded down
BlockSizeFloor(n, blockCount) == n \div blockCount

\* blockSize := (len(samples) + blockCount - 1) / blockCount
BlockSize(n, blockCount) == (n + blockCount - 1) \div blockCount

\* the indexes j of the samples the goroutine of block i reads
BlockRead(s, blockSize, i) ==
    LET start == i * blockSize
        end == Min(start + blockSize, Len(s))
    IN IF start >= Len(s) THEN {} ELSE start .. (end - 1)

\* averages[i] as the goroutine of block i leaves it (s is 0-based in the
\* source: samples[j] is s[j + 1])
BlockAverage(s, blockSize, i) ==
    LET start == i * blockSize
        end == Min(start + blockSize, Len(s))
    IN IF start >= Len(s) THEN Frac(0, 1)
       ELSE IF end - start = 0 THEN Frac(0, 1)
       ELSE Frac(SumAbs(s, start, end), end - start)

\* tmp[q] (0-based) after sort.Float64s(tmp)
SortedAt(avg, q) ==
    CHOOSE v \in {avg[i] : i \in DOMAIN avg} :
        /\ Cardinality({i \in DOMAIN avg : FLess(avg[i], v)}) <= q
        /\ q < Cardinality({i \in DOMAIN avg : FLeq(avg[i], v)})

\* the median of the block averages
Median(avg) ==
    LET n == Cardinality(DOMAIN avg) IN
    IF n % 2 = 0
    THEN LET a == SortedAt(avg, n \div 2 - 1)
             b == SortedAt(avg, n \div 2)
         IN Frac(a.n * b.d + b.n * a.d, 2 * a.d * b.d)
    ELSE SortedAt(avg, n \div 2)

\* a test that also passes an average equal to the median
AtOrAbove(a, median) == FLeq(median, a)

\* a test against the fixed level 1
AboveUnit(a, median) == FLess(Frac(1, 1), a)

\* `if averages[i] > median`
Above(a, median) == FLess(median, a)

\* the median and the mask of the averages avg: bit blockCount-1-i for every
\* block i above the median
MaskOf(avg, blockCount) ==
    LET median == Median(avg)
    IN UNION {Shl1(blockCount - 1 - i) :
                i \in {k \in 0 .. (blockCount - 1) : Above(avg[k], median)}}

\* FingerprintFromSamples, as it returns once every goroutine has written its
\* average
FingerprintFromSamples(s, bits) ==
    LET blockCount == BlockCount(bits)
        blockSize == BlockSize(Len(s), blockCount)
    IN IF Len(s) = 0 THEN {}
       ELSE MaskOf([i \in 0 .. (blockCount - 1) |-> BlockAverage(s, blockSize, i)],
                   blockCount)

\* FingerprintFromFile, `if bitsLen <= 0 || bitsLen > 64`: the error return
FileReject ==
    /\ fpc = "call"
    /\ fcall = "FingerprintFromFile"
    /\ bitsLen <= 0 \/ bitsLen > MaxBits
    /\ fpRet' = [fp |-> {}, err |-> TRUE]
    /\ fpc' = "returned"
    /\ UNCHANGED <<notFP, fcall, bitsLen, samples, decodeOk>>

\* FingerprintFromFile: ffmpeg is missing or fails, or its output does not
\* parse as 16-bit samples: the error return
FileDecodeFail ==
    /\ fpc = "call"
    /\ fcall = "FingerprintFromFile"
    /\ ~(bitsLen <= 0 \/ bitsLen > MaxBits)
    /\ ~decodeOk
    /\ fpRet' = [fp |-> {}, err |-> TRUE]
    /\ fpc' = "returned"
    /\ UNCHANGED <<notFP, fcall, bitsLen, samples, decodeOk>>

\* FingerprintFromFile: the decoded samples are fingerprinted
FileFingerprint ==
    /\ fpc = "call"
    /\ fcall = "FingerprintFromFile"
    /\ ~(bitsLen <= 0 \/ bitsLen > MaxBits)
    /\ decodeOk
    /\ fpRet' = [fp |-> FingerprintFromSamples(samples, bitsLen), err |-> FALSE]
    /\ fpc' = "returned"
    /\ UNCHANGED <<notFP, fcall, bitsLen, samples, decodeOk>>

\* a direct call of FingerprintFromSamples (it has no error result)
SamplesFingerprint ==
    /\ fpc = "call"
    /\ fcall = "FingerprintFromSamples"
    /\ fpRet' = [fp |-> FingerprintFromSamples(samples, bitsLen), err |-> FALSE]
    /\ fpc' = "returned"
    /\ UNCHANGED <<notFP, fcall, bitsLen, samples, decodeOk>>

\* the sample values and the widths the calls are made with
SampleValues == {-2, 0, 1, 3}

BitsLens == {-1, 0, 1, 2, 3, 4, 64, 65}

SampleSeqs == UNION {[1 .. n -> SampleValues] : n \in 0 .. MaxSamples}

\* the sample values of the longer sequences and of the pairs of sequences
PairValues == {-2, 0, 1}

BlockSeqs == UNION {[1 .. n -> PairValues] : n \in 0 .. MaxBlockSamples}

InitFP ==
    /\ fcall \in {"FingerprintFromFile", "FingerprintFromSamples"}
    /\ bitsLen \in BitsLens
    /\ samples \in SampleSeqs
    /\ decodeOk \in (IF fcall = "FingerprintFromFile" THEN BOOLEAN ELSE {TRUE})
    /\ fpc = "call"
    /\ fpRet = [fp |-> {}, err |-> FALSE]
    /\ SKIdle
    /\ PipeIdle
    /\ BlkIdle
    /\ HDIdle

NextFP ==
    \/ FileReject
    \/ FileDecodeFail
    \/ FileFingerprint
    \/ SamplesFingerprint

SpecFP == InitFP /\ [][NextFP]_vars

----------------------------------------------------------------------------
(* FingerprintFromSamples, goroutine by goroutine *)

\* the blocks of the call
Blocks == 0 .. (BlockCount(bitsLen) - 1)

\* wg.Wait() returns at once
WaitReturnsAtOnce == TRUE

\* wg.Wait() returns when every goroutine has run its deferred wg.Done()
WaitReturns == \A i \in DOMAIN bg : bg[i].pc = "done"

\* `if len(samples) == 0 { return 0 }`
SamplesEmpty ==
    /\ fpc = "call"
    /\ fcall = "FingerprintFromSamples"
    /\ Len(samples) = 0
    /\ fpRet' = [fp |-> {}, err |-> FALSE]
    /\ fpc' = "returned"
    /\ UNCHANGED <<notBlk, fcall, bitsLen, samples, decodeOk, averages, bg>>

\* `averages := make([]float64, blockCount)`: every element 0
SamplesMake ==
    /\ fpc = "call"
    /\ fcall = "FingerprintFromSamples"
    /\ Len(samples) > 0
    /\ averages' = [i \in Blocks |-> Frac(0, 1)]
    /\ bg' = [i \in Blocks |-> [pc |-> "unborn", read |-> {}, nth |-> 0]]
    /\ fpc' = "spawn"
    /\ UNCHANGED <<notBlk, fcall, bitsLen, samples, decodeOk, fpRet>>

\* the loop `for i := 0; i < blockCount; i++ { wg.Add(1); go func(i int) {...}(i) }`:
\* the goroutine of block i is started, after those of the blocks before it;
\* after the last one the caller is at wg.Wait()
Go(i) ==
    /\ fpc = "spawn"
    /\ bg[i].pc = "unborn"
    /\ \A k \in Blocks : k < i => bg[k].pc # "unborn"
    /\ bg' = [bg EXCEPT ![i].pc = "ready"]
    /\ fpc' = IF i = BlockCount(bitsLen) - 1 THEN "wait" ELSE "spawn"
    /\ UNCHANGED <<notBlk, fcall, bitsLen, samples, decodeOk, fpRet, averages>>

\* the goroutine of block i, whole: it reads its samples (which nobody
\* writes), stores averages[i], and calls wg.Done()
BlockRun(i) ==
    LET blockSize == BlockSize(Len(samples), BlockCount(bitsLen)) IN
    /\ fpc \in {"spawn", "wait"}
    /\ bg[i].pc = "ready"
    /\ averages' = [averages EXCEPT ![i] = BlockAverage(samples, blockSize, i)]
    /\ bg' = [bg EXCEPT ![i] = [pc |-> "done", read |-> BlockRead(samples, blockSize, i),
                                nth |-> 1 + Cardinality({k \in Blocks : bg[k].pc = "done"})]]
    /\ UNCHANGED <<notBlk, fcall, bitsLen, samples, decodeOk, fpc, fpRet>>

\* wg.Wait() returns; the median and the mask are computed from averages as
\* it is then
SamplesReturn ==
    /\ fpc = "wait"
    /\ WaitReturns
    /\ fpRet' = [fp |-> MaskOf(averages, BlockCount(bitsLen)), err |-> FALSE]
    /\ fpc' = "returned"
    /\ UNCHANGED <<notBlk, fcall, bitsLen, samples, decodeOk, averages, bg>>

InitBlocks ==
    /\ fcall = "FingerprintFromSamples"
    /\ bitsLen \in 1 .. MaxBlocks
    /\ samples \in BlockSeqs
    /\ decodeOk = TRUE
    /\ fpc = "call"
    /\ fpRet = [fp |-> {}, err |-> FALSE]
    /\ BlkIdle
    /\ SKIdle
    /\ PipeIdle
    /\ HDIdle

NextBlocks ==
    \/ SamplesEmpty
    \/ SamplesMake
    \/ \E i \in Blocks : Go(i)
    \/ \E i \in Blocks : BlockRun(i)
    \/ SamplesReturn

SpecBlocks == InitBlocks /\ [][NextBlocks]_vars

----------------------------------------------------------------------------
(* HammingDistance, of two fingerprints or of words *)

\* every sample of s times c
Scale(c, s) == [k \in DOMAIN s |-> c * s[k]]

\* n samples of amplitude val
makeConstantSamples(val, n) == [k \in 1 .. n |-> val]

PairSeqs == UNION {[1 .. n -> PairValues] : n \in 0 .. MaxPairLen}

Scales == {2, 3, 10922}

ConstAmps == {-2, 1, 3, 1000, 1005}

PairBits == {1, 2, 3, 4, 64}

\* the pairs of calls: any two short sequences, a sequence and a louder copy
\* of it, and two constant sequences of one length
SamplePairs ==
    {[sa |-> s, sb |-> t, bits |-> w] : s \in PairSeqs, t \in PairSeqs, w \in PairBits}
    \cup {[sa |-> s, sb |-> Scale(c, s), bits |-> w] :
             s \in SampleSeqs, c \in Scales, w \in PairBits}
    \cup {[sa |-> makeConstantSamples(u, n), sb |-> makeConstantSamples(v, n), bits |-> w] :
             n \in 1 .. MaxConstLen, u \in ConstAmps, v \in ConstAmps,
             w \in PairBits \cup {0, 65}}

\* words given as they are: 0b101010 and 0b111000 among them
Words == (SUBSET {0, 1, 63}) \cup {{1, 3, 5}, {3, 4, 5}}

\* the two calls FingerprintFromSamples(sa, pbits), FingerprintFromSamples(sb, pbits)
FingerprintBoth ==
    /\ hpc = "call"
    /\ fa' = FingerprintFromSamples(sa, pbits)
    /\ fb' = FingerprintFromSamples(sb, pbits)
    /\ hpc' = "have"
    /\ UNCHANGED <<notHD, sa, sb, pbits, fc, dist>>

\* the calls of HammingDistance on the words
Distances ==
    /\ hpc = "have"
    /\ dist' = [ab |-> HammingDistance(fa, fb), ba |-> HammingDistance(fb, fa),
                ac |-> HammingDistance(fa, fc), bc |-> HammingDistance(fb, fc),
                aa |-> HammingDistance(fa, fa)]
    /\ hpc' = "done"
    /\ UNCHANGED <<notHD, sa, sb, pbits, fa, fb, fc>>

InitHD ==
    /\ \/ /\ \E p \in SamplePairs : sa = p.sa /\ sb = p.sb /\ pbits = p.bits
          /\ fa = {}
          /\ fb = {}
          /\ fc = {}
          /\ hpc = "call"
       \/ /\ sa = <<>>
          /\ sb = <<>>
          /\ pbits = 0
          /\ fa \in Words
          /\ fb \in Words
          /\ fc \in Words
          /\ hpc = "have"
    /\ dist = <<>>
    /\ SKIdle
    /\ PipeIdle
    /\ FPIdle
    /\ BlkIdle

NextHD ==
    \/ FingerprintBoth
    \/ Distances

SpecHD == InitHD /\ [][NextHD]_vars

----------------------------------------------------------------------------
(* SelectKeep: what the properties are stated in *)

Range(f) == {f[x] : x \in DOMAIN f}

\* the rows reachable from the rows of S along Similar
RECURSIVE Closure(_)
Closure(S) ==
    LET T == S \cup {j \in Idx : \E i \in S : Similar(i, j)}
    IN IF T = S THEN S ELSE Closure(T)

\* the connected component of row i under distance <= threshold
Component(i) == Closure({i})

Components == {Component(i) : i \in Idx}

\* the groups SelectKeep built, as sets of rows
Clusters == {Range(groups[r]) : r \in DOMAIN groups}

\* the rows of the records SelectKeep returned
KeptRows == {i \in Idx : \E k \in 1 .. Len(keeps) : keeps[k] = File(i)}

\* record m is preferred to record i: larger, or as large with a smaller path
Beats(m, i) ==
    \/ File(m).Size > File(i).Size
    \/ File(m).Size = File(i).Size /\ StrLess(File(m).Path, File(i).Path)

\* goroutine i has made an access of a union call that it has not finished
InsideUF(i) ==
    /\ gs[i].pc \notin {"done", "overflow"}
    /\ ~(gs[i].pc = "find_test" /\ gs[i].arg = "a" /\ Len(gs[i].stack) = 1)

\* C1: for a non-empty batch and threshold >= 0, the groups of a finished
\* SelectKeep are the connected components of distance <= threshold, and
\* exactly one record of each component is returned.
C1_OnePerComponent ==
    (mpc = "done" /\ N > 0 /\ threshold >= 0) =>
        /\ Clusters = Components
        /\ Len(keeps) = Cardinality(Components)
        /\ \A c \in Components : Cardinality(c \cap KeptRows) = 1

\* C2: of every group it built, SelectKeep returns exactly the member that is
\* largest, the smallest path among the largest; a record that is not
\* returned has in its connected component another record that is larger, or
\* as large with a smaller path; and A(1,X), B(3,X), C(2,Y) with X and Y
\* farther apart than the threshold gives B, C.
C2_KeeperIsLargest ==
    (mpc = "done" /\ N > 0) =>
        /\ \A c \in Clusters :
              \E m \in c :
                 /\ c \cap KeptRows = {m}
                 /\ \A i \in c \ {m} : Beats(m, i)
        /\ \A i \in Idx \ KeptRows : \E m \in Component(i) \ {i} : Beats(m, i)
        /\ (/\ files = <<Rec(1, 1, {}), Rec(2, 3, {}), Rec(3, 2, {0, 1})>>
            /\ threshold >= 0)
              => keeps = <<Rec(2, 3, {}), Rec(3, 2, {0, 1})>>

\* C2's case: a finished run with a group whose largest size is shared by two
\* of its records, and a record dropped
C2_Witness ==
    /\ mpc = "done"
    /\ Len(keeps) < N
    /\ \E c \in Clusters : \E m \in c : \E i \in c \ {m} :
          /\ m \in KeptRows
          /\ File(i).Size = File(m).Size
          /\ StrLess(File(m).Path, File(i).Path)

\* C3: no two comparison goroutines are inside union/find at the same time,
\* and the partition of a finished run is the connected components.
C3_UnionFindExclusive ==
    /\ mpc = "wait" => Cardinality({i \in Idx : InsideUF(i)}) <= 1
    /\ mpc \in {"select", "done"} => Clusters = Components

\* C4: SelectKeep never fails to terminate: parent holds no cycle but a
\* root's self-loop, no find exhausts the stack, and after the grouping loop
\* every record is in exactly one group.
C4_FindTerminates ==
    /\ mpc # "crashed"
    /\ mpc \in {"wait", "select", "done"} => \A x \in Idx : Rooted(parent, x)
    /\ mpc \in {"select", "done"} =>
          \A i \in Idx : Cardinality({c \in Clusters : i \in c}) = 1

\* C9: a call with a negative threshold builds no partition and returns no
\* keep-set.
C9_NegativeThresholdRejected ==
    threshold < 0 => (groups = <<>> /\ keeps = <<>>)

\* the records of the batch, as a set
RecordSet == Range(files)

\* the records of R within distance t of some record of S, and S
RECURSIVE ClassOf(_, _, _)
ClassOf(R, S, t) ==
    LET T == S \cup {r \in R : \E q \in S : HammingDistance(q.FP, r.FP) <= t}
    IN IF T = S THEN S ELSE ClassOf(R, T, t)

\* the partition of the set R of records by distance <= t, made transitive
PartitionOf(R, t) == {ClassOf(R, {r}, t) : r \in R}

\* the record of the class C that is largest, the smallest path among the
\* largest
BestOf(C) ==
    CHOOSE m \in C : \A r \in C \ {m} :
        \/ m.Size > r.Size
        \/ m.Size = r.Size /\ StrLess(m.Path, r.Path)

KeepSetOf(R, t) == {BestOf(C) : C \in PartitionOf(R, t)}

\* the groups SelectKeep built, as sets of records
RecordClusters == {{File(i) : i \in c} : c \in Clusters}

\* C11: what a finished SelectKeep built and returned is fixed by the set of
\* the records and the threshold (so is the same for every ordering of the
\* batch): the groups are the classes of the set, the sequence returned holds
\* the best record of each class once, and it ascends by path.
C11_OrderIndependent ==
    mpc = "done" =>
        /\ N > 0 => RecordClusters = PartitionOf(RecordSet, threshold)
        /\ Range(keeps) = KeepSetOf(RecordSet, threshold)
        /\ Len(keeps) = Cardinality(KeepSetOf(RecordSet, threshold))
        /\ \A k \in 1 .. (Len(keeps) - 1) : StrLess(keeps[k].Path, keeps[k + 1].Path)

\* C12: for thresholds 0 <= t1 < threshold, every class of the batch at t1
\* (what SelectKeep builds at t1 when no union races) lies inside one group
\* built at threshold, and no more records are returned at threshold than
\* there are classes at t1.
C12_ThresholdMonotone ==
    \A t1 \in 0 .. (threshold - 1) :
        /\ mpc \in {"select", "done"} =>
              \A C \in PartitionOf(RecordSet, t1) : \E G \in RecordClusters : C \subseteq G
        /\ mpc = "done" => Len(keeps) <= Cardinality(PartitionOf(RecordSet, t1))

----------------------------------------------------------------------------
(* main's pipeline: what the properties are stated in *)

PathIds == 1 .. NPaths

\* how many times path p is in the sequence s
Times(s, p) == Cardinality({k \in 1 .. Len(s) : s[k] = p})

\* FingerprintFromFile was called on p and returned without / with an error
Succeeded(p) == fpCount[p] > 0 /\ decodable[p]

Failed(p) == fpCount[p] > 0 /\ ~decodable[p]

\* C5: when main checks len(metas) and when it calls SelectKeep, every path
\* fingerprinted with success is in the records exactly once, and every path
\* that failed is recorded as a failure and is not in the records.
C5_NothingLost ==
    /\ pmc \in {"checkLen", "cluster"} =>
          \A p \in PathIds :
             /\ Succeeded(p) => Times(metas, p) = 1
             /\ Failed(p) => (p \in warned /\ Times(metas, p) = 0)
    /\ pmc \in {"copy", "report", "exit"} =>
          \A p \in PathIds : Succeeded(p) => Times(clusterIn, p) = 1

\* C6: the run ends in the fatal empty-batch error only if no file was
\* fingerprinted with success.
C6_FatalOnlyIfNoSuccess ==
    pmc = "fatal" => ~(\E p \in PathIds : Succeeded(p))

\* C7: when every file fails decoding, the records stay empty, clustering,
\* copying and reporting never start, and the run that reports the fatal
\* empty-result condition has a non-empty failure record.
C7_AllFailIsFatal ==
    (workers >= 1 /\ \A p \in PathIds : ~decodable[p]) =>
        /\ metas = <<>>
        /\ pmc \notin {"cluster", "copy", "report", "exit"}
        /\ pmc = "fatal" => (warned # {} /\ collectErr # 0)

\* what C8 says of every state
C8_Safe ==
    /\ \A p \in PathIds : fpCount[p] <= 1
    /\ \A v, w \in Workers : (v # w /\ wk[v].path # 0) => wk[v].path # wk[w].path
    /\ jobsClosed => sent = NPaths
    /\ resClosed => \A w \in Workers : wk[w].pc = "exit"
    /\ pmc \notin {"idle", "wait"} => \A p \in PathIds : fpCount[p] = 1

\* the run is over, with every path fingerprinted once
C8_Done == pmc \in {"fatal", "exit"} /\ \A p \in PathIds : fpCount[p] = 1

\* C8: with at least one worker, every path is taken by one worker and
\* fingerprinted exactly once whatever fails, jobs is closed after the last
\* path, results only after every worker is done, and the run comes to its
\* end.
C8_BatchCompletes == (workers >= 1) => ([]C8_Safe /\ <>C8_Done)

\* C8's case: a run that came to its end past a file that failed
C8_Witness ==
    /\ workers >= 1
    /\ pmc = "exit"
    /\ \E p \in PathIds : Failed(p)
    /\ \A p \in PathIds : fpCount[p] = 1

\* the workers inside FingerprintFromFile
InProgress == {w \in Workers : wk[w].pc = "fingerprint"}

\* what C20 says of every state: no more files are being fingerprinted than
\* there are workers, and no path is with two workers
C20_Bounded ==
    /\ Cardinality(InProgress) <= workers
    /\ Cardinality({wk[w].path : w \in InProgress}) <= workers
    /\ \A v, w \in InProgress : v # w => wk[v].path # wk[w].path

\* what C20 says of every step: a step of a worker changes no other worker,
\* and nothing of main or of the collector but through the channels
C20_WorkerStep ==
    \A w \in Workers :
        wk'[w] # wk[w] =>
            /\ \A v \in Workers \ {w} : wk'[v] = wk[v]
            /\ UNCHANGED <<metas, collectErr, warned, clusterIn, pmc, jobsClosed, resClosed>>

\* C20: at every moment at most `workers` files are being decoded and
\* fingerprinted, no path is in progress in two workers, and the workers share
\* nothing they write but the jobs and results channels.
C20_BoundedParallelism == []C20_Bounded /\ [][C20_WorkerStep]_vars

\* C20's case: two or more workers, every one of them fingerprinting a file
C20_Witness ==
    /\ workers >= 2
    /\ InProgress = Workers

----------------------------------------------------------------------------
(* the fingerprint package: what the properties are stated in *)

\* C10: a call of FingerprintFromFile or FingerprintFromSamples with bitsLen
\* outside 1..64 returns a rejection and no fingerprint.
C10_WidthRejected ==
    (fpc = "returned" /\ (bitsLen <= 0 \/ bitsLen > 64)) =>
        (fpRet.err /\ fpRet.fp = {})

\* the mean of block i of the call's samples
MeanOf(i) == BlockAverage(samples, BlockSize(Len(samples), bitsLen), i)

\* v stands at place q (1 .. bitsLen) of the block means in ascending order
MeanAtPlace(v, q) ==
    /\ Cardinality({i \in 0 .. (bitsLen - 1) : FLess(MeanOf(i), v)}) < q
    /\ q <= Cardinality({i \in 0 .. (bitsLen - 1) : FLeq(MeanOf(i), v)})

\* the mean at place q of the block means in ascending order
CentralMean(q) == CHOOSE v \in {MeanOf(k) : k \in 0 .. (bitsLen - 1)} : MeanAtPlace(v, q)

\* the mean m is strictly greater than the mean of lo and hi: twice m exceeds
\* their sum
OverMean(m, lo, hi) == 2 * m.n * lo.d * hi.d > (lo.n * hi.d + hi.n * lo.d) * m.d

\* C13: for non-empty samples and bitsLen in 1..64, bit bitsLen-1-i of the
\* fingerprint is set exactly when the mean of block i is strictly greater
\* than the median of the block means (the central mean of an odd number of
\* blocks, the mean of the two central ones of an even number; a mean equal
\* to the median gives 0), and no bit at position bitsLen or above is set.
C13_BitsAboveMedian ==
    (fpc = "returned" /\ ~fpRet.err /\ Len(samples) > 0 /\ bitsLen \in 1 .. 64) =>
        LET lo == CentralMean((bitsLen + 1) \div 2)
            hi == CentralMean(bitsLen \div 2 + 1)
        IN /\ \A i \in 0 .. (bitsLen - 1) :
                 ((bitsLen - 1 - i) \in fpRet.fp) <=> OverMean(MeanOf(i), lo, hi)
           /\ fpRet.fp \subseteq 0 .. (bitsLen - 1)

\* C13's case: four blocks with means 3, 1, 2, 0 (the last one empty): the
\* median is 3/2, blocks 0 and 2 are above it
C13_Witness ==
    /\ fpc = "returned"
    /\ bitsLen = 4
    /\ samples = <<3, 1, -2>>
    /\ fpRet = [fp |-> {1, 3}, err |-> FALSE]

----------------------------------------------------------------------------
(* FingerprintFromSamples goroutine by goroutine: what the properties are stated in *)

\* C15: the fingerprint returned is the one fixed by the samples and bitsLen,
\* whatever the order the goroutines ran in: averages[i] is written by the
\* goroutine of block i alone (it is 0 until that goroutine is done and the
\* block's average from then on), and the call returns only after every
\* goroutine is done.
C15_Deterministic ==
    /\ fpc = "returned" =>
          /\ fpRet.fp = FingerprintFromSamples(samples, bitsLen)
          /\ \A i \in DOMAIN bg : bg[i].pc = "done"
    /\ \A i \in DOMAIN bg :
          averages[i] = IF bg[i].pc = "done"
                        THEN BlockAverage(samples, BlockSize(Len(samples), BlockCount(bitsLen)), i)
                        ELSE Frac(0, 1)

\* C15's case: a call that returned a fingerprint with a bit set after a later
\* block's goroutine finished before an earlier block's
C15_Witness ==
    /\ fpc = "returned"
    /\ fpRet.fp # {}
    /\ \E i, k \in DOMAIN bg : i < k /\ bg[k].nth < bg[i].nth

\* the least q with q * b >= n
CeilDiv(n, b) == CHOOSE q \in 0 .. n : q * b >= n /\ (q - 1) * b < n

\* the samples counted in block i
ReadBy(i) == bg[i].read

\* what C19 in both its forms says of a finished call: exactly bitsLen blocks,
\* each a run of consecutive samples, in the order of time, every sample in
\* exactly one block, and an empty block with average 0
C19_Partition ==
    /\ DOMAIN bg = 0 .. (bitsLen - 1)
    /\ \A i \in DOMAIN bg : \A x, z \in ReadBy(i) : \A y \in x .. z : y \in ReadBy(i)
    /\ \A i, k \in DOMAIN bg : i < k => \A x \in ReadBy(i) : \A y \in ReadBy(k) : x < y
    /\ \A j \in 0 .. (Len(samples) - 1) : Cardinality({i \in DOMAIN bg : j \in ReadBy(i)}) = 1
    /\ \A i \in DOMAIN bg : ReadBy(i) = {} => averages[i] = Frac(0, 1)

\* C19 as stated: the blocks partition the samples as above, every block but
\* the last has exactly ceil(len(samples)/bitsLen) samples, and a block is
\* empty only if len(samples) < bitsLen.
C19_BlocksFull ==
    (fpc = "returned" /\ Len(samples) > 0 /\ bitsLen \in 1 .. 64) =>
        /\ C19_Partition
        /\ \A i \in DOMAIN bg :
              i < bitsLen - 1 => Cardinality(ReadBy(i)) = CeilDiv(Len(samples), bitsLen)
        /\ \A i \in DOMAIN bg : ReadBy(i) = {} => Len(samples) < bitsLen

\* C19 amended: the blocks partition the samples as above, block i holds the
\* samples from i * c up to (i + 1) * c (cut at the end of the samples) for
\* c = ceil(len(samples)/bitsLen): no block has more than c samples, at most
\* one block has fewer than c and more than none, every block after a block
\* with fewer than c is empty, and a block is empty exactly when
\* i * c >= len(samples), which happens for len(samples) >= bitsLen too.
C19_BlocksCeil ==
    (fpc = "returned" /\ Len(samples) > 0 /\ bitsLen \in 1 .. 64) =>
        LET c == CeilDiv(Len(samples), bitsLen) IN
        /\ C19_Partition
        /\ \A i \in DOMAIN bg : Cardinality(ReadBy(i)) <= c
        /\ \A i, k \in DOMAIN bg :
              (i < k /\ Cardinality(ReadBy(i)) < c) => ReadBy(k) = {}
        /\ \A i \in DOMAIN bg : ReadBy(i) = {} <=> i * c >= Len(samples)

\* C19's case: a finished call with at least as many samples as blocks and an
\* empty block after a full one
C19_Witness ==
    /\ fpc = "returned"
    /\ Len(samples) >= bitsLen
    /\ \E i, k \in DOMAIN bg :
          /\ i < k
          /\ Cardinality(ReadBy(i)) = CeilDiv(Len(samples), bitsLen)
          /\ ReadBy(k) = {}

----------------------------------------------------------------------------
(* HammingDistance: what the properties are stated in *)

\* the second call's samples are the first call's, every one times the same
\* positive integer
IsLouder(s, t) ==
    /\ Len(s) = Len(t)
    /\ \E c \in {1} \cup {Abs(t[k]) \div Abs(s[k]) : k \in {m \in DOMAIN s : s[m] # 0}} :
          c >= 1 /\ t = Scale(c, s)

\* every sample is an int16
Fits16(s) == \A k \in DOMAIN s : s[k] >= -32768 /\ s[k] <= 32767

\* C14: for bitsLen in 1..64, samples and the same samples times a positive
\* integer (all of them still int16) have the same fingerprint.
C14_VolumeInvariant ==
    (/\ hpc \in {"have", "done"}
     /\ pbits \in 1 .. 64
     /\ IsLouder(sa, sb)
     /\ Fits16(sa)
     /\ Fits16(sb)) => fa = fb

\* C14's case: samples of both signs and their copy 10922 times louder, with
\* a fingerprint that has a bit set
C14_Witness ==
    /\ hpc = "done"
    /\ Len(sa) >= 2
    /\ \E k \in DOMAIN sa : sa[k] < 0
    /\ sb = Scale(10922, sa)
    /\ fa # {}
    /\ fa = fb

\* C16: HammingDistance(a, b) is the number of bit positions where a and b
\* differ; for two fingerprints FingerprintFromSamples made with the same
\* bitsLen in 1..64 it is in 0..bitsLen; 0b101010 and 0b111000 give 2.
C16_DistanceIsPopcount ==
    hpc = "done" =>
        /\ dist.ab = Cardinality({k \in 0 .. (WordBits - 1) : (k \in fa) # (k \in fb)})
        /\ pbits \in 1 .. 64 => dist.ab \in 0 .. pbits
        /\ (fa = {1, 3, 5} /\ fb = {3, 4, 5}) => dist.ab = 2

\* C16's case: two fingerprints of the same width that differ in every bit
C16_Witness ==
    /\ hpc = "done"
    /\ pbits \in 2 .. 64
    /\ dist.ab = pbits

\* C17: HammingDistance is symmetric, 0 exactly for equal words, and obeys
\* the triangle inequality.
C17_DistanceIsMetric ==
    hpc = "done" =>
        /\ dist.ab = dist.ba
        /\ dist.aa = 0
        /\ dist.ab = 0 <=> fa = fb
        /\ dist.ac <= dist.ab + dist.bc

\* C17's case: three different words, one of them with the top bit, the
\* triangle inequality an equality
C17_Witness ==
    /\ hpc = "done"
    /\ fa # fb /\ fb # fc /\ fa # fc
    /\ 63 \in fc
    /\ dist.ac = dist.ab + dist.bc

\* s is a sequence of one or more samples, all of the same non-zero amplitude
IsConstant(s) == Len(s) >= 1 /\ s[1] # 0 /\ \A k \in DOMAIN s : s[k] = s[1]

\* C18: the fingerprints of two non-zero constant sample sequences of the
\* same length, made with the same bitsLen, are at distance 6 or less.
C18_ConstantsAreNear ==
    (hpc = "done" /\ IsConstant(sa) /\ IsConstant(sb) /\ Len(sa) = Len(sb)) =>
        dist.ab <= 6

\* C18's case: constant 1000 against constant 1005, seven samples or more,
\* bitsLen 64, and a fingerprint with bits set
C18_Witness ==
    /\ hpc = "done"
    /\ pbits = 64
    /\ Len(sa) >= 7
    /\ sa = makeConstantSamples(1000, Len(sa))
    /\ sb = makeConstantSamples(1005, Len(sa))
    /\ fa # {}

====
